---------------------------- MODULE Spec2Model ----------------------------
(***************************************************************************)
(* A model of mysql_stubs.c, the C stubs between the OCaml runtime and the *)
(* MySQL client library: the connection value (dbd) and its open flag, the *)
(* runtime's master lock around blocking calls, buffered query results,    *)
(* and prepared statements with their row_t binding buffers.               *)
(*                                                                         *)
(* A stub that brackets a native call with caml_enter_blocking_section /   *)
(* caml_leave_blocking_section is modelled by two actions: the part up to  *)
(* the native call (name of the stub) and the part from the return of the  *)
(* native call (name of the stub with _leave).  Between the two, other     *)
(* host threads may run.  A stub that never releases the lock is one       *)
(* action.                                                                 *)
(***************************************************************************)
EXTENDS Integers, Sequences, FiniteSets, TLC

Threads == {"t1", "t2"}

\* ---- bounds ----
MaxRows == 2        \* rows of a buffered query result
MaxCols == 2        \* columns of a buffered query result
MaxParams == 2      \* parameters a prepared statement declares
MaxHandles == 2     \* execution handles the host holds at a time
MaxCloses == 2      \* close calls on a prepared statement
MaxTypeCode == 256  \* column type codes from -MaxTypeCode to MaxTypeCode
MaxFetchHandles == 1  \* execution handles held at a time where the rows vary

VARIABLES
  live,      \* the host threads that exist
  pc,        \* per thread: "host", "yielded", "crashed", "enter" (in a stub, past
             \* caml_enter_blocking_section), or the native call it is blocked in
  hasLock,   \* per thread: it holds the runtime's master lock
  cur,       \* per thread: the stub call in progress or last returned, and what it did
  dbd,       \* the connection value: Field 1 (MYSQL* or Val_false), Field 2 (open)
  session,   \* the native MYSQL object: "none", "init", "connected", "closed"
  closes,    \* number of mysql_close calls made so far
  stmt,      \* the prepared statement: the native MYSQL_STMT and the host's value
  handles,   \* the values returned by caml_mysql_stmt_execute that the host holds
  result,    \* the query result value: RESval (a MYSQL_RES or NULL) and its cursor
  nfetch,    \* db_fetch calls since the result was stored; -1 once a seek was made
  seeked,    \* the offset of a successful seek that the last call made; else -1
  out,       \* what the last fetch, seek or accessor returned
  server     \* what the server answers (fixed per behaviour)

thrVars  == <<live, pc, hasLock, cur>>
connVars == <<dbd, session, closes>>
stmtVars == <<stmt, handles>>
resVars == <<result, nfetch, seeked>>
vars == <<live, pc, hasLock, cur, dbd, session, closes, stmt, handles,
          result, nfetch, seeked, out, server>>

\* ---------------------------------------------------------------------------
\* The host runtime and the record kept of a stub call
\* ---------------------------------------------------------------------------

NoDbd == [alloc |-> FALSE, mysql |-> "none", open |-> FALSE, dropped |-> FALSE]

NoErr == [kind |-> "none", actual |-> 0, expected |-> 0]

NoCall == [op |-> "none", wasOpen |-> FALSE, wasLive |-> FALSE, arg |-> 0,
           mysql |-> "none", res |-> "none", err |-> NoErr, calls |-> <<>>,
           obs |-> <<>>]

\* the record of a stub entered by a thread: the open flag it found.  mysql is
\* the stub's local copy of DBDmysql(dbd), in the one stub that makes one
Begin(op) == [op |-> op, wasOpen |-> dbd.open, wasLive |-> stmt.state = "live",
              arg |-> 0, mysql |-> "none", res |-> "pending", err |-> NoErr,
              calls |-> <<>>, obs |-> <<>>]

CallSet(t) == {cur[t].calls[i] : i \in 1..Len(cur[t].calls)}

\* one call into the native library: the function, the handle passed, whether the
\* calling thread held the master lock, and whether the handle was a live session
Native(fn, arg, locked) ==
  [fn |-> fn, arg |-> arg, locked |-> locked,
   ub |-> ~(arg = "MYSQL" /\ session = "connected")]

DBDmysql(d) == d.mysql
DBDopen(d) == d.open

\* check_dbd passes (does not raise) exactly when the open flag is set
check_dbd(d) == DBDopen(d)

caml_enter_blocking_section(t) == [hasLock EXCEPT ![t] = FALSE]

\* caml_leave_blocking_section blocks until no other thread holds the lock
LockFree(t) == \A u \in Threads \ {t} : ~hasLock[u]
caml_leave_blocking_section(t) == [hasLock EXCEPT ![t] = TRUE]

InHost(t) == t \in live /\ pc[t] = "host"
Usable == dbd.alloc /\ ~dbd.dropped

\* the outcomes of a native call: a call on a handle that is not a live session is
\* undefined behaviour, and may also bring the process down
Outcomes(t) ==
  IF (\E c \in CallSet(t) : c.ub) \/ session # "connected"
  THEN {"ok", "fail", "crash"} ELSE {"ok", "fail"}

Crash(t) ==
  /\ pc' = [u \in Threads |-> "crashed"]
  /\ cur' = [cur EXCEPT ![t].res = "crash"]
  /\ UNCHANGED <<live, hasLock, connVars, stmtVars, resVars, out, server>>

\* a stub of the shape  check_dbd; enter; native(DBDmysql(dbd)); leave
\* up to the return of caml_enter_blocking_section: the thread is then at
\* "enter", with the lock released and DBDmysql(dbd) not yet read.  checked: the
\* stub calls check_dbd.  released: the stub enters a blocking section.
BlockingEnter(t, op, checked, released) ==
  /\ InHost(t) /\ Usable
  /\ IF checked /\ ~check_dbd(dbd)
     THEN /\ cur' = [cur EXCEPT ![t] = [Begin(op) EXCEPT !.res = "closed"]]
          /\ UNCHANGED <<pc, hasLock>>
     ELSE /\ hasLock' = IF released THEN caml_enter_blocking_section(t) ELSE hasLock
          /\ pc' = [pc EXCEPT ![t] = "enter"]
          /\ cur' = [cur EXCEPT ![t] = Begin(op)]
  /\ UNCHANGED <<live, connVars, stmtVars, resVars, out, server>>

\* the next step of such a stub: it reads DBDmysql(dbd), as the value is by then,
\* and enters the native call with it
BlockingCall(t, op, fn) ==
  /\ t \in live /\ pc[t] = "enter" /\ cur[t].op = op
  /\ pc' = [pc EXCEPT ![t] = op]
  /\ cur' = [cur EXCEPT ![t].calls = <<Native(fn, DBDmysql(dbd), hasLock[t])>>]
  /\ UNCHANGED <<live, hasLock, connVars, stmtVars, resVars, out, server>>

\* from the return of the native call: on failure the stub leaves the blocking
\* section and raises; on success it leaves and returns unit
BlockingLeave(t, op) ==
  /\ t \in live /\ pc[t] = op
  /\ \E o \in Outcomes(t) :
       IF o = "crash" THEN Crash(t)
       ELSE /\ LockFree(t)
            /\ hasLock' = caml_leave_blocking_section(t)
            /\ pc' = [pc EXCEPT ![t] = "host"]
            /\ cur' = [cur EXCEPT ![t].res = IF o = "ok" THEN "unit" ELSE "fail"]
            /\ UNCHANGED <<live, connVars, stmtVars, resVars, out, server>>

\* a stub that calls the library on DBDmysql(dbd) without releasing the lock
DirectCall(t, op, fn, checked) ==
  /\ InHost(t) /\ Usable
  /\ IF checked /\ ~check_dbd(dbd)
     THEN /\ cur' = [cur EXCEPT ![t] = [Begin(op) EXCEPT !.res = "closed"]]
          /\ UNCHANGED pc
     ELSE LET c == Native(fn, DBDmysql(dbd), hasLock[t]) IN
          \E o \in (IF c.ub THEN {"ok", "crash"} ELSE {"ok"}) :
            /\ cur' = [cur EXCEPT ![t] =
                         [Begin(op) EXCEPT !.calls = <<c>>,
                                           !.res = IF o = "ok" THEN "value" ELSE "crash"]]
            /\ pc' = IF o = "ok" THEN pc ELSE [u \in Threads |-> "crashed"]
  /\ UNCHANGED <<live, hasLock, connVars, stmtVars, resVars, out, server>>

\* ---------------------------------------------------------------------------
\* Connection
\* ---------------------------------------------------------------------------

db_connect(t) ==
  /\ InHost(t) /\ ~dbd.alloc /\ session = "none"
  /\ \E init \in BOOLEAN :
       IF ~init
       THEN /\ cur' = [cur EXCEPT ![t] = [Begin("connect") EXCEPT !.res = "fail"]]
            /\ UNCHANGED <<pc, hasLock, session>>
       ELSE /\ session' = "init"
            /\ hasLock' = caml_enter_blocking_section(t)
            /\ pc' = [pc EXCEPT ![t] = "connect"]
            /\ cur' = [cur EXCEPT ![t] =
                 [Begin("connect") EXCEPT
                    !.calls = <<[fn |-> "mysql_real_connect", arg |-> "init",
                                 locked |-> hasLock'[t], ub |-> FALSE]>>]]
  /\ UNCHANGED <<live, dbd, closes, stmtVars, resVars, out, server>>

db_connect_leave(t) ==
  /\ t \in live /\ pc[t] = "connect"
  /\ LockFree(t)
  /\ hasLock' = caml_leave_blocking_section(t)
  /\ pc' = [pc EXCEPT ![t] = "host"]
  /\ \E ok \in BOOLEAN :
       IF ok
       THEN /\ dbd' = [alloc |-> TRUE, mysql |-> "MYSQL", open |-> TRUE, dropped |-> FALSE]
            /\ session' = "connected"
            /\ cur' = [cur EXCEPT ![t].res = "value"]
       ELSE /\ cur' = [cur EXCEPT ![t].res = "fail"]
            /\ UNCHANGED <<dbd, session>>
  /\ UNCHANGED <<live, closes, stmtVars, resVars, out, server>>

db_change_user(t) == t \in live /\ BlockingEnter(t, "change_user", TRUE, TRUE)
db_change_user_call(t) == t \in live /\ BlockingCall(t, "change_user", "mysql_change_user")
db_change_user_leave(t) == t \in live /\ BlockingLeave(t, "change_user")

db_ping(t) == t \in live /\ BlockingEnter(t, "ping", TRUE, TRUE)
db_ping_call(t) == t \in live /\ BlockingCall(t, "ping", "mysql_ping")
db_ping_leave(t) == t \in live /\ BlockingLeave(t, "ping")

db_select_db(t) == t \in live /\ BlockingEnter(t, "select_db", TRUE, TRUE)
db_select_db_call(t) == t \in live /\ BlockingCall(t, "select_db", "mysql_select_db")

\* on failure mysqlfailmsg raises before caml_leave_blocking_section is reached
db_select_db_leave(t) ==
  /\ t \in live /\ pc[t] = "select_db"
  /\ \E o \in Outcomes(t) :
       CASE o = "crash" -> Crash(t)
         [] o = "fail"  -> /\ pc' = [pc EXCEPT ![t] = "host"]
                           /\ cur' = [cur EXCEPT ![t].res = "fail"]
                           /\ UNCHANGED <<live, hasLock, connVars, stmtVars, resVars, out, server>>
         [] o = "ok"    -> /\ LockFree(t)
                           /\ hasLock' = caml_leave_blocking_section(t)
                           /\ pc' = [pc EXCEPT ![t] = "host"]
                           /\ cur' = [cur EXCEPT ![t].res = "unit"]
                           /\ UNCHANGED <<live, connVars, stmtVars, resVars, out, server>>

\* db_list_dbs has no check_dbd
db_list_dbs(t) == t \in live /\ BlockingEnter(t, "list_dbs", FALSE, TRUE)
db_list_dbs_call(t) == t \in live /\ BlockingCall(t, "list_dbs", "mysql_list_dbs")

\* a call on the MYSQL_RES that mysql_list_dbs returned
DbsCall(fn, locked) == [fn |-> fn, arg |-> "dbs", locked |-> locked, ub |-> FALSE]

\* "fail": no result handle, NONE.  "zero": a result of zero rows, freed, NONE.
\* "ok": the names are read row by row, the result is freed, Some of the names
db_list_dbs_leave(t) ==
  /\ t \in live /\ pc[t] = "list_dbs"
  /\ \E o \in Outcomes(t) \cup {"zero"} :
       IF o = "crash" THEN Crash(t)
       ELSE /\ LockFree(t)
            /\ hasLock' = caml_leave_blocking_section(t)
            /\ pc' = [pc EXCEPT ![t] = "host"]
            /\ cur' = [cur EXCEPT
                  ![t].res = IF o = "ok" THEN "some" ELSE "none",
                  ![t].calls =
                     CASE o = "fail" -> @
                       [] o = "zero" -> @ \o <<DbsCall("mysql_num_rows", hasLock'[t]),
                                               DbsCall("mysql_free_result", hasLock'[t])>>
                       [] o = "ok"   -> @ \o <<DbsCall("mysql_num_rows", hasLock'[t]),
                                               DbsCall("mysql_fetch_row", hasLock'[t]),
                                               DbsCall("mysql_free_result", hasLock'[t])>>]
            /\ UNCHANGED <<live, connVars, stmtVars, resVars, out, server>>

db_disconnect(t) == t \in live /\ BlockingEnter(t, "disconnect", TRUE, TRUE)

\* mysql_close(DBDmysql(dbd)): it reaches the session when the field still holds
\* the MYSQL pointer
CloseCall(t, op) ==
  /\ t \in live /\ pc[t] = "enter" /\ cur[t].op = op
  /\ pc' = [pc EXCEPT ![t] = op]
  /\ cur' = [cur EXCEPT ![t].calls = <<Native("mysql_close", DBDmysql(dbd), hasLock[t])>>]
  /\ session' = IF DBDmysql(dbd) = "MYSQL" THEN "closed" ELSE session
  /\ closes' = IF DBDmysql(dbd) = "MYSQL" THEN closes + 1 ELSE closes
  /\ UNCHANGED <<live, hasLock, dbd, stmtVars, resVars, out, server>>

db_disconnect_call(t) == t \in live /\ CloseCall(t, "disconnect")

db_disconnect_leave(t) ==
  /\ t \in live /\ pc[t] = "disconnect"
  /\ \E o \in (IF \E c \in CallSet(t) : c.ub THEN {"ok", "crash"} ELSE {"ok"}) :
       IF o = "crash" THEN Crash(t)
       ELSE /\ LockFree(t)
            /\ hasLock' = caml_leave_blocking_section(t)
            /\ pc' = [pc EXCEPT ![t] = "host"]
            /\ dbd' = [dbd EXCEPT !.mysql = "Val_false", !.open = FALSE]
            /\ cur' = [cur EXCEPT ![t].res = "unit"]
            /\ UNCHANGED <<live, session, closes, stmtVars, resVars, out, server>>

\* conn_finalize without the test of the open flag
conn_finalize_NoCheck(t) ==
  /\ InHost(t) /\ Usable
  /\ \A u \in live : pc[u] \in {"host", "yielded"}
  /\ dbd' = [dbd EXCEPT !.dropped = TRUE]
  /\ hasLock' = caml_enter_blocking_section(t)
  /\ pc' = [pc EXCEPT ![t] = "enter"]
  /\ cur' = [cur EXCEPT ![t] = Begin("finalize")]
  /\ UNCHANGED <<live, session, closes, stmtVars, resVars, out, server>>

\* the finalizer runs in the thread that collects the value, once no stub is using it
conn_finalize(t) ==
  /\ InHost(t) /\ Usable
  /\ \A u \in live : pc[u] \in {"host", "yielded"}
  /\ dbd' = [dbd EXCEPT !.dropped = TRUE]
  /\ IF DBDopen(dbd)
     THEN /\ hasLock' = caml_enter_blocking_section(t)
          /\ pc' = [pc EXCEPT ![t] = "enter"]
          /\ cur' = [cur EXCEPT ![t] = Begin("finalize")]
     ELSE /\ cur' = [cur EXCEPT ![t] = [Begin("finalize") EXCEPT !.res = "unit"]]
          /\ UNCHANGED <<pc, hasLock>>
  /\ UNCHANGED <<live, session, closes, stmtVars, resVars, out, server>>

conn_finalize_call(t) == t \in live /\ CloseCall(t, "finalize")

conn_finalize_leave(t) ==
  /\ t \in live /\ pc[t] = "finalize"
  /\ LockFree(t)
  /\ hasLock' = caml_leave_blocking_section(t)
  /\ pc' = [pc EXCEPT ![t] = "host"]
  /\ cur' = [cur EXCEPT ![t].res = "unit"]
  /\ UNCHANGED <<live, connVars, stmtVars, resVars, out, server>>

db_status(t) == t \in live /\ DirectCall(t, "status", "mysql_errno", TRUE)
db_errmsg(t) == t \in live /\ DirectCall(t, "errmsg", "mysql_error", TRUE)
db_affected(t) == t \in live /\ DirectCall(t, "affected", "mysql_affected_rows", FALSE)
db_insert_id(t) == t \in live /\ DirectCall(t, "insert_id", "mysql_insert_id", FALSE)
db_host_info(t) == t \in live /\ DirectCall(t, "host_info", "mysql_get_host_info", FALSE)
db_server_info(t) == t \in live /\ DirectCall(t, "server_info", "mysql_get_server_info", FALSE)
db_proto_info(t) == t \in live /\ DirectCall(t, "proto_info", "mysql_get_proto_info", FALSE)

\* ---------------------------------------------------------------------------
\* Queries
\* ---------------------------------------------------------------------------

\* held: the host has the result value; null: RESval is NULL; cursor: the row
\* cursor; fcur: the field cursor; finals: runs of the value's destructor; frees:
\* mysql_free_result calls made on the handle
NoResult == [held |-> FALSE, null |-> TRUE, rows |-> <<>>, nf |-> 0, cursor |-> 0,
             fcur |-> 0, finals |-> 0, frees |-> 0]
NoOut == [op |-> "none", err |-> "none", val |-> <<>>, n |-> 0, afterSeek |-> -1]

\* what mysql_store_result can hand back: NULL (no result set, or the store
\* failed), or the server's rows with the cursor on the first row
Stored ==
  {[NoResult EXCEPT !.held = TRUE]} \cup
  (IF server.query.nf = 0 THEN {}
   ELSE {[NoResult EXCEPT !.held = TRUE, !.null = FALSE, !.rows = server.query.rows,
                          !.nf = server.query.nf]})

\* mysql = DBDmysql(dbd) is read before the blocking section is entered
db_exec(t) ==
  /\ InHost(t) /\ Usable
  /\ IF ~check_dbd(dbd)
     THEN /\ cur' = [cur EXCEPT ![t] = [Begin("exec") EXCEPT !.res = "closed"]]
          /\ UNCHANGED <<pc, hasLock>>
     ELSE /\ hasLock' = caml_enter_blocking_section(t)
          /\ pc' = [pc EXCEPT ![t] = "enter"]
          /\ cur' = [cur EXCEPT ![t] = [Begin("exec") EXCEPT !.mysql = DBDmysql(dbd)]]
  /\ UNCHANGED <<live, connVars, stmtVars, resVars, out, server>>

\* mysql_real_query(mysql, ...) on the copy
db_exec_call(t) ==
  /\ t \in live /\ pc[t] = "enter" /\ cur[t].op = "exec"
  /\ pc' = [pc EXCEPT ![t] = "exec"]
  /\ cur' = [cur EXCEPT ![t].calls = <<Native("mysql_real_query", cur[t].mysql, hasLock[t])>>]
  /\ UNCHANGED <<live, hasLock, connVars, stmtVars, resVars, out, server>>

\* on failure: leave, raise.  On success: leave, alloc_custom, then
\* mysql_store_result with the lock held
db_exec_leave(t) ==
  /\ t \in live /\ pc[t] = "exec"
  /\ \E o \in Outcomes(t) :
       CASE o = "crash" -> Crash(t)
         [] o = "fail"  -> /\ LockFree(t)
                           /\ hasLock' = caml_leave_blocking_section(t)
                           /\ pc' = [pc EXCEPT ![t] = "host"]
                           /\ cur' = [cur EXCEPT ![t].res = "fail"]
                           /\ UNCHANGED <<live, connVars, stmtVars, resVars, out, server>>
         [] o = "ok"    -> /\ LockFree(t)
                           /\ hasLock' = caml_leave_blocking_section(t)
                           /\ pc' = [pc EXCEPT ![t] = "host"]
                           /\ cur' = [cur EXCEPT ![t].res = "value",
                                 ![t].calls = Append(@,
                                    Native("mysql_store_result", DBDmysql(dbd), hasLock'[t]))]
                           /\ \E r \in Stored : result' = r
                           /\ nfetch' = 0
                           /\ seeked' = -1
                           /\ out' = NoOut
                           /\ UNCHANGED <<live, connVars, stmtVars, server>>

\* ---------------------------------------------------------------------------
\* Buffered results.  An OCaml option is a sequence: <<>> is None, <<v>> is Some v.
\* ---------------------------------------------------------------------------

mysql_num_rows(r) == Len(r.rows)
mysql_num_fields(r) == r.nf

\* the row under the cursor, NULL (<<>>) when the cursor is past the last row
mysql_fetch_row(r) == IF r.cursor < Len(r.rows) THEN <<r.rows[r.cursor + 1]>> ELSE <<>>

\* the byte length of each cell of a row, 0 for a NULL cell
mysql_fetch_lengths(row) ==
  [i \in 1..Len(row) |-> IF row[i].null THEN 0 ELSE Len(row[i].data)]

\* a seek that lands one row late
mysql_data_seek_Late(r, off) ==
  [r EXCEPT !.cursor = IF off + 1 < Len(r.rows) THEN off + 1 ELSE Len(r.rows)]

\* the cursor is put on row off, or past the end when there is no such row
mysql_data_seek(r, off) ==
  [r EXCEPT !.cursor = IF off < Len(r.rows) THEN off ELSE Len(r.rows)]

\* val_str_option that also gives NONE for an empty value
val_str_option_EmptyNone(s, length) ==
  IF s.null \/ length = 0 THEN <<>> ELSE <<SubSeq(s.data, 1, length)>>

\* NONE for a NULL pointer, else Some of a copy of the first length bytes
val_str_option(s, length) == IF s.null THEN <<>> ELSE <<SubSeq(s.data, 1, length)>>

\* db_fetch that answers NONE where there is no result handle
FetchOn_NullNone(r) ==
  IF r.null \/ mysql_num_fields(r) = 0 THEN [err |-> "none", val |-> <<>>, res |-> r]
  ELSE LET row == mysql_fetch_row(r) IN
       IF row = <<>> THEN [err |-> "none", val |-> <<>>, res |-> r]
       ELSE LET length == mysql_fetch_lengths(row[1])
                fields == [i \in 1..mysql_num_fields(r) |->
                             val_str_option(row[1][i], length[i])]
            IN [err |-> "none", val |-> <<fields>>,
                res |-> [r EXCEPT !.cursor = @ + 1]]

\* db_fetch on the RESval r: the error raised or the value returned, and r after it
FetchOn(r) ==
  IF r.null THEN [err |-> "no_result", val |-> <<>>, res |-> r]
  ELSE IF mysql_num_fields(r) = 0 THEN [err |-> "no_columns", val |-> <<>>, res |-> r]
  ELSE LET row == mysql_fetch_row(r) IN
       IF row = <<>> THEN [err |-> "none", val |-> <<>>, res |-> r]
       ELSE LET length == mysql_fetch_lengths(row[1])
                fields == [i \in 1..mysql_num_fields(r) |->
                             val_str_option(row[1][i], length[i])]
            IN [err |-> "none", val |-> <<fields>>,
                res |-> [r EXCEPT !.cursor = @ + 1]]

db_fetch(t) ==
  /\ InHost(t) /\ result.held
  /\ nfetch < MaxRows + 2
  /\ LET f == FetchOn(result)
         k == IF nfetch = -1 THEN -1 ELSE nfetch + 1
     IN /\ result' = f.res
        /\ nfetch' = k
        /\ seeked' = -1
        /\ out' = [op |-> "fetch", err |-> f.err, val |-> f.val, n |-> k,
                   afterSeek |-> seeked]
  /\ UNCHANGED <<thrVars, connVars, stmtVars, server>>

\* the range test with the upper limit one too high
OutOfRange_Late(off, r) == off < 0 \/ off > mysql_num_rows(r)

\* the range test of db_to_row on an int64 offset
OutOfRange(off, r) == off < 0 \/ off > mysql_num_rows(r) - 1

db_to_row(t) ==
  /\ InHost(t) /\ result.held
  /\ \E off \in (-1)..(MaxRows + 1) :
       LET err == IF result.null THEN "no_result"
                  ELSE IF OutOfRange(off, result) THEN "range" ELSE "none"
       IN /\ result' = IF err = "none" THEN mysql_data_seek(result, off) ELSE result
          /\ seeked' = IF err = "none" THEN off ELSE -1
          /\ nfetch' = -1
          /\ out' = [op |-> "to_row", err |-> err, val |-> <<>>, n |-> off,
                     afterSeek |-> -1]
  /\ UNCHANGED <<thrVars, connVars, stmtVars, server>>

db_size(t) ==
  /\ InHost(t) /\ result.held
  /\ out' = [op |-> "size", err |-> "none",
             val |-> <<IF result.null THEN 0 ELSE mysql_num_rows(result)>>,
             n |-> 0, afterSeek |-> -1]
  /\ UNCHANGED <<thrVars, connVars, stmtVars, resVars, server>>

db_fields(t) ==
  /\ InHost(t) /\ result.held
  /\ out' = [op |-> "fields", err |-> "none",
             val |-> <<IF result.null THEN 0 ELSE mysql_num_fields(result)>>,
             n |-> 0, afterSeek |-> -1]
  /\ UNCHANGED <<thrVars, connVars, stmtVars, resVars, server>>

\* ---------------------------------------------------------------------------
\* Column types: type2dbty
\* ---------------------------------------------------------------------------

\* the tags of the OCaml type dbty
INT_TY == 0
FLOAT_TY == 1
STRING_TY == 2
SET_TY == 3
ENUM_TY == 4
DATETIME_TY == 5
DATE_TY == 6
TIME_TY == 7
YEAR_TY == 8
TIMESTAMP_TY == 9
UNKNOWN_TY == 10
INT64_TY == 11
BLOB_TY == 12
DECIMAL_TY == 13

\* the column type codes of the client library (enum_field_types)
FIELD_TYPE_DECIMAL == 0
FIELD_TYPE_TINY == 1
FIELD_TYPE_SHORT == 2
FIELD_TYPE_LONG == 3
FIELD_TYPE_FLOAT == 4
FIELD_TYPE_DOUBLE == 5
FIELD_TYPE_NULL == 6
FIELD_TYPE_TIMESTAMP == 7
FIELD_TYPE_LONGLONG == 8
FIELD_TYPE_INT24 == 9
FIELD_TYPE_DATE == 10
FIELD_TYPE_TIME == 11
FIELD_TYPE_DATETIME == 12
FIELD_TYPE_YEAR == 13
FIELD_TYPE_NEWDATE == 14
FIELD_TYPE_ENUM == 247
FIELD_TYPE_SET == 248
FIELD_TYPE_TINY_BLOB == 249
FIELD_TYPE_MEDIUM_BLOB == 250
FIELD_TYPE_LONG_BLOB == 251
FIELD_TYPE_BLOB == 252
FIELD_TYPE_VAR_STRING == 253
FIELD_TYPE_STRING == 254

\* the table of type2dbty, closed by the entry with the code -1
map ==
  <<[mysql |-> FIELD_TYPE_DECIMAL, caml |-> DECIMAL_TY],
    [mysql |-> FIELD_TYPE_TINY, caml |-> INT_TY],
    [mysql |-> FIELD_TYPE_SHORT, caml |-> INT_TY],
    [mysql |-> FIELD_TYPE_LONG, caml |-> INT_TY],
    [mysql |-> FIELD_TYPE_FLOAT, caml |-> FLOAT_TY],
    [mysql |-> FIELD_TYPE_DOUBLE, caml |-> FLOAT_TY],
    [mysql |-> FIELD_TYPE_NULL, caml |-> STRING_TY],
    [mysql |-> FIELD_TYPE_TIMESTAMP, caml |-> TIMESTAMP_TY],
    [mysql |-> FIELD_TYPE_LONGLONG, caml |-> INT64_TY],
    [mysql |-> FIELD_TYPE_INT24, caml |-> INT_TY],
    [mysql |-> FIELD_TYPE_DATE, caml |-> DATE_TY],
    [mysql |-> FIELD_TYPE_TIME, caml |-> TIME_TY],
    [mysql |-> FIELD_TYPE_DATETIME, caml |-> DATETIME_TY],
    [mysql |-> FIELD_TYPE_YEAR, caml |-> YEAR_TY],
    [mysql |-> FIELD_TYPE_NEWDATE, caml |-> UNKNOWN_TY],
    [mysql |-> FIELD_TYPE_ENUM, caml |-> ENUM_TY],
    [mysql |-> FIELD_TYPE_SET, caml |-> SET_TY],
    [mysql |-> FIELD_TYPE_TINY_BLOB, caml |-> BLOB_TY],
    [mysql |-> FIELD_TYPE_MEDIUM_BLOB, caml |-> BLOB_TY],
    [mysql |-> FIELD_TYPE_LONG_BLOB, caml |-> BLOB_TY],
    [mysql |-> FIELD_TYPE_BLOB, caml |-> BLOB_TY],
    [mysql |-> FIELD_TYPE_VAR_STRING, caml |-> STRING_TY],
    [mysql |-> FIELD_TYPE_STRING, caml |-> STRING_TY],
    [mysql |-> -1, caml |-> UNKNOWN_TY]>>

RECURSIVE MapLoop(_, _)
\* for (i=0; map[i].mysql != -1 && map[i].mysql != type; i++): the index it stops at
MapLoop(i, type) ==
  IF map[i].mysql # -1 /\ map[i].mysql # type THEN MapLoop(i + 1, type) ELSE i

\* type2dbty that takes the 64-bit integer for an Int
type2dbty_Wide(type) ==
  IF type = FIELD_TYPE_LONGLONG THEN INT_TY ELSE map[MapLoop(1, type)].caml

type2dbty(type) == map[MapLoop(1, type)].caml

\* the codes type2dbty is applied to
TypeCodes == (-MaxTypeCode)..MaxTypeCode

\* make_field stores type2dbty(f->type) in the column description
MapType(t) ==
  /\ InHost(t)
  /\ \E code \in TypeCodes :
       out' = [op |-> "type2dbty", err |-> "none", val |-> <<type2dbty(code)>>,
               n |-> code, afterSeek |-> -1]
  /\ UNCHANGED <<thrVars, connVars, stmtVars, resVars, server>>

\* the type code of column j of a result, as the server describes it
FieldType(j) ==
  IF j % 3 = 1 THEN FIELD_TYPE_LONG
  ELSE IF j % 3 = 2 THEN FIELD_TYPE_VAR_STRING ELSE FIELD_TYPE_LONGLONG

\* the description of column j: its position stands for the MYSQL_FIELD
make_field(j) == [name |-> j, ty |-> type2dbty(FieldType(j))]

\* the next MYSQL_FIELD of the handle, NULL (<<>>) after the last one
mysql_fetch_field(r) == IF r.fcur < r.nf THEN <<r.fcur + 1>> ELSE <<>>

db_fetch_field(t) ==
  /\ InHost(t) /\ result.held
  /\ LET f == IF result.null THEN <<>> ELSE mysql_fetch_field(result)
     IN /\ out' = [op |-> "fetch_field", err |-> "none",
                   val |-> IF f = <<>> THEN <<>> ELSE <<make_field(f[1])>>,
                   n |-> 0, afterSeek |-> -1]
        /\ result' = IF f = <<>> THEN result ELSE [result EXCEPT !.fcur = @ + 1]
  /\ UNCHANGED <<thrVars, connVars, stmtVars, nfetch, seeked, server>>

\* the tags a column description can carry
DbTypes == {map[i].caml : i \in 1..Len(map)}

\* what make_field can build from memory that is no MYSQL_FIELD of the result:
\* a name that is no column's, and any tag
StrayFields == {[name |-> 0, ty |-> ty] : ty \in DbTypes}

\* mysql_fetch_field_direct does not test pos: for a position outside the
\* result's columns it returns an address outside the field array, which
\* make_field reads.  That read stops the process, or finds a NULL pointer or
\* bytes that it takes for a field
db_fetch_field_dir(t) ==
  /\ InHost(t) /\ result.held
  /\ \E pos \in (-1)..MaxCols :
       IF result.null \/ (0 <= pos /\ pos < result.nf)
       THEN /\ out' = [op |-> "fetch_field_dir", err |-> "none",
                       val |-> IF result.null THEN <<>> ELSE <<make_field(pos + 1)>>,
                       n |-> pos, afterSeek |-> -1]
            /\ UNCHANGED pc
       ELSE \E o \in {"crash", "value"}, val \in {<<>>} \cup {<<f>> : f \in StrayFields} :
              /\ o = "crash" => val = <<>>
              /\ out' = [op |-> "fetch_field_dir", err |-> "none", val |-> val,
                         n |-> pos, afterSeek |-> -1]
              /\ pc' = IF o = "crash" THEN [u \in Threads |-> "crashed"] ELSE pc
  /\ UNCHANGED <<live, hasLock, cur, connVars, stmtVars, resVars, server>>

\* db_fetch_fields passes RESval to mysql_num_fields without testing it: with no
\* result handle the library reads through a NULL pointer, which stops the
\* process or reads some count
db_fetch_fields(t) ==
  /\ InHost(t) /\ result.held
  /\ IF result.null
     THEN \E o \in {"crash", "zero"} :
            /\ out' = [op |-> "fetch_fields", err |-> "null_deref", val |-> <<>>,
                       n |-> 0, afterSeek |-> -1]
            /\ pc' = IF o = "crash" THEN [u \in Threads |-> "crashed"] ELSE pc
     ELSE /\ out' = [op |-> "fetch_fields", err |-> "none",
                     val |-> IF mysql_num_fields(result) = 0 THEN <<>>
                             ELSE <<[j \in 1..mysql_num_fields(result) |-> make_field(j)]>>,
                     n |-> 0, afterSeek |-> -1]
          /\ UNCHANGED pc
  /\ UNCHANGED <<live, hasLock, cur, connVars, stmtVars, resVars, server>>

\* res_finalize without the test of RESval
res_finalize_NoTest(t) ==
  /\ InHost(t)
  /\ result.held \/ result.finals > 0
  /\ result' = [result EXCEPT !.held = FALSE, !.finals = @ + 1, !.frees = @ + 1]
  /\ UNCHANGED <<live, hasLock, pc, cur, connVars, stmtVars, nfetch, seeked, out, server>>

\* the destructor of a result value.  It frees RESval when it is not NULL and
\* leaves it as it is: a run after the first passes the freed handle to
\* mysql_free_result again, which frees it again or stops the process
res_finalize(t) ==
  /\ InHost(t)
  /\ result.held \/ result.finals > 0
  /\ \E o \in (IF ~result.null /\ result.frees > 0 THEN {"ok", "crash"} ELSE {"ok"}) :
       /\ pc' = IF o = "crash" THEN [u \in Threads |-> "crashed"] ELSE pc
       /\ result' = [result EXCEPT !.held = FALSE, !.finals = @ + 1,
                                   !.frees = IF result.null THEN @ ELSE @ + 1]
  /\ UNCHANGED <<live, hasLock, cur, connVars, stmtVars, nfetch, seeked, out, server>>

\* res_ops names res_finalize as the finalizer of the result value: the host's
\* collector runs it once, on a value the host still has
FinalizeResult(t) ==
  /\ result.held
  /\ res_finalize(t)

\* ---------------------------------------------------------------------------
\* Prepared statements
\* ---------------------------------------------------------------------------

\* state: the native MYSQL_STMT ("none", "live", "freed"); held: the host has the
\* statement value; dropped: the host had it and dropped it; closes:
\* mysql_stmt_close calls made on it; rows: the latest execution left a result
\* to fetch from; cursor: rows of it fetched so far; bound: where the bindings
\* that mysql_stmt_bind_result copied into the statement point ("none", into the
\* "row" of a handle, into a row_t that is "freed", or into a row_t that no
\* handle was made for: "leaked" with its arrays, "leaked_null" without one)
NoStmt == [state |-> "none", held |-> FALSE, dropped |-> FALSE, closes |-> 0,
           rows |-> FALSE, cursor |-> 0, bound |-> "none"]

\* a call on the MYSQL_STMT; it is undefined once the statement has been freed
StmtNative(fn, locked) ==
  [fn |-> fn, arg |-> "STMT", locked |-> locked, ub |-> stmt.state # "live"]

\* create_row, set_param, bind_result, destroy_row: the row_t helpers
RowCall(fn, locked) == [fn |-> fn, arg |-> "row", locked |-> locked, ub |-> FALSE]

Rep(n, x) == [i \in 1..n |-> x]

caml_mysql_stmt_prepare(t) ==
  /\ stmt.state = "none"
  /\ BlockingEnter(t, "prepare", TRUE, TRUE)

caml_mysql_stmt_prepare_call(t) ==
  t \in live /\ BlockingCall(t, "prepare", "mysql_stmt_init")

\* mysql_stmt_init has returned.  Without a statement the stub leaves the
\* blocking section and raises; with one it enters mysql_stmt_prepare in the
\* same blocking section
caml_mysql_stmt_prepare_compile(t) ==
  /\ t \in live /\ pc[t] = "prepare" /\ Len(cur[t].calls) = 1
  /\ \E o \in {"ok", "init_fail"} \cup
              (IF (\E c \in CallSet(t) : c.ub) \/ session # "connected"
               THEN {"crash"} ELSE {}) :
       CASE o = "crash" -> Crash(t)
         [] o = "init_fail" ->
              /\ LockFree(t)
              /\ hasLock' = caml_leave_blocking_section(t)
              /\ pc' = [pc EXCEPT ![t] = "host"]
              /\ cur' = [cur EXCEPT ![t].res = "fail",
                                    ![t].err = [kind |-> "Prepare", actual |-> 0,
                                                expected |-> 0]]
              /\ UNCHANGED <<live, connVars, stmtVars, resVars, out, server>>
         [] o = "ok" ->
              /\ cur' = [cur EXCEPT ![t].calls =
                           Append(@, [fn |-> "mysql_stmt_prepare", arg |-> "STMT",
                                      locked |-> hasLock[t], ub |-> FALSE])]
              /\ stmt' = [stmt EXCEPT !.state = "live"]
              /\ UNCHANGED <<live, pc, hasLock, connVars, handles, resVars, out, server>>

\* mysql_stmt_prepare has returned: the stub leaves the blocking section and
\* returns the statement, or raises; a statement whose compilation fails is not
\* closed
caml_mysql_stmt_prepare_leave(t) ==
  /\ t \in live /\ pc[t] = "prepare" /\ Len(cur[t].calls) = 2
  /\ \E o \in Outcomes(t) :
       IF o = "crash" THEN Crash(t)
       ELSE /\ LockFree(t)
            /\ hasLock' = caml_leave_blocking_section(t)
            /\ pc' = [pc EXCEPT ![t] = "host"]
            /\ cur' = [cur EXCEPT
                  ![t].res = IF o = "ok" THEN "value" ELSE "fail",
                  ![t].err = IF o = "ok" THEN NoErr
                             ELSE [kind |-> "Prepare", actual |-> 0, expected |-> 0]]
            /\ stmt' = [stmt EXCEPT !.held = (o = "ok")]
            /\ UNCHANGED <<live, connVars, handles, resVars, out, server>>

\* no flag guards the close: every call reaches mysql_stmt_close
caml_mysql_stmt_close(t) ==
  /\ InHost(t) /\ stmt.held /\ stmt.closes < MaxCloses
  /\ hasLock' = caml_enter_blocking_section(t)
  /\ pc' = [pc EXCEPT ![t] = "enter"]
  /\ cur' = [cur EXCEPT ![t] = Begin("stmt_close")]
  /\ UNCHANGED <<live, connVars, stmtVars, resVars, out, server>>

\* mysql_stmt_close(STMTval(stmt)), in the blocking section: the statement is
\* freed from here on
caml_mysql_stmt_close_call(t) ==
  /\ t \in live /\ pc[t] = "enter" /\ cur[t].op = "stmt_close"
  /\ pc' = [pc EXCEPT ![t] = "stmt_close"]
  /\ cur' = [cur EXCEPT ![t].calls = <<StmtNative("mysql_stmt_close", hasLock[t])>>]
  /\ stmt' = [stmt EXCEPT !.state = "freed", !.closes = @ + 1, !.rows = FALSE]
  /\ UNCHANGED <<live, hasLock, connVars, handles, resVars, out, server>>

caml_mysql_stmt_close_leave(t) ==
  /\ t \in live /\ pc[t] = "stmt_close"
  /\ \E o \in {"ok", "fail"} \cup (IF \E c \in CallSet(t) : c.ub THEN {"crash"} ELSE {}) :
       IF o = "crash" THEN Crash(t)
       ELSE /\ LockFree(t)
            /\ hasLock' = caml_leave_blocking_section(t)
            /\ pc' = [pc EXCEPT ![t] = "host"]
            /\ cur' = [cur EXCEPT ![t].res = IF o = "ok" THEN "unit" ELSE "fail",
                                  ![t].err = IF o = "ok" THEN NoErr
                                             ELSE [kind |-> "Close", actual |-> 0,
                                                   expected |-> 0]]
            /\ UNCHANGED <<live, connVars, stmtVars, resVars, out, server>>

\* the statement value is the bare MYSQL_STMT pointer: the host dropping it runs
\* no finalizer
DropStmt(t) ==
  /\ InHost(t) /\ stmt.held
  /\ stmt' = [stmt EXCEPT !.held = FALSE, !.dropped = TRUE]
  /\ UNCHANGED <<thrVars, connVars, handles, resVars, out, server>>

mysql_stmt_param_count == server.P
mysql_stmt_field_count == server.F

\* the test with > for !=
ParamCountOk_Le(len, count) == len <= count

ParamCountOk(len, count) == len = count

\* "P.execute : Got %i parameters, but expected %u"
ParamCountMsg(len, count) == [kind |-> "ParamCount", actual |-> len, expected |-> count]

Fail(kind) == [kind |-> kind, actual |-> 0, expected |-> 0]

\* something the stub does with the host's heap or the master lock
HostCall(fn, locked) == [fn |-> fn, arg |-> "host", locked |-> locked, ub |-> FALSE]

\* destroy_row on a row_t that create_row returned: the arrays and the row_t are freed
destroy_row(locked) == <<RowCall("destroy_row", locked)>>

\* mysql_stmt_execute inside a blocking section
mysql_stmt_execute_Released(locked) ==
  <<HostCall("caml_enter_blocking_section", locked),
    StmtNative("mysql_stmt_execute", FALSE),
    HostCall("caml_leave_blocking_section", FALSE)>>

\* the call of mysql_stmt_execute in caml_mysql_stmt_execute: made as the thread is
mysql_stmt_execute(locked) == <<StmtNative("mysql_stmt_execute", locked)>>

\* create_row tests its malloc only: each of the four calloc calls may have
\* returned NULL in the row_t it returns.  A row_t of one or more columns
\* without r->bind does not outlive the first set_param or bind_result; one
\* with r->bind is, in a handle, "all": the four arrays are there; "no_length":
\* r->length is NULL; "no_flags": r->length is there, r->error or r->is_null is
\* NULL
RowArrays == {"all", "no_length", "no_flags"}

\* a row_t as create_row returns it (calloc: every length 0, no buffer), in the
\* value the host gets.  stale: the statement has been executed again since;
\* bound: the statement's bindings point into this row_t's arrays; length:
\* r->length; buf0: r->bind[0].buffer_length; arrays: which arrays it has
create_row(count) ==
  [stale |-> FALSE, bound |-> FALSE, count |-> count, length |-> Rep(count, 0),
   buf0 |-> 0, arrays |-> "all"]

\* where caml_mysql_stmt_execute ends: at a raise after the call named (that of
\* alloc_custom is the host's Out_of_memory), at the return ("ok"), or in a write
\* through a NULL array of the row_t
ExecPaths == {"row_params", "bind_param", "execute", "row_results", "bind_result",
              "alloc_custom", "ok", "set_param_null", "bind_result_null"}

caml_mysql_stmt_execute(t) ==
  /\ InHost(t) /\ stmt.held
  /\ \E len \in 0..(MaxParams + 1), path \in ExecPaths \cup {"crash"}, a \in RowArrays :
       LET L(fn) == StmtNative(fn, hasLock[t])
           R(fn) == RowCall(fn, hasLock[t])
           F == mysql_stmt_field_count
           base == [Begin("stmt_execute") EXCEPT !.arg = len]
           raise == <<HostCall("mysqlfailwith", hasLock[t])>>
           c1 == <<L("mysql_stmt_param_count")>>
           c2 == c1 \o <<R("create_row")>> \o Rep(len, R("set_param"))
           c3 == c2 \o <<L("mysql_stmt_bind_param")>>
           c4 == c3 \o mysql_stmt_execute(hasLock[t])
           c5 == c4 \o destroy_row(hasLock[t]) \o <<L("mysql_stmt_field_count")>>
           c6 == c5 \o <<R("create_row")>> \o Rep(F, R("bind_result"))
                    \o (IF F > 0 THEN <<L("mysql_stmt_bind_result")>> ELSE <<>>)
           executed == [stmt EXCEPT !.rows = TRUE, !.cursor = 0]
           \* the handles of earlier executions no longer match the statement's rows
           older == [i \in 1..Len(handles) |-> [handles[i] EXCEPT !.stale = TRUE]]
           \* mysql_stmt_bind_result copies the new bindings into the statement
           unbound == [i \in 1..Len(handles) |->
                         [handles[i] EXCEPT !.stale = TRUE, !.bound = FALSE]]
           done(calls, kind) ==
             cur' = [cur EXCEPT ![t] = [base EXCEPT !.calls = calls \o raise,
                                                    !.res = "fail", !.err = Fail(kind)]]
           died(calls) ==
             /\ pc' = [u \in Threads |-> "crashed"]
             /\ cur' = [cur EXCEPT ![t] = [base EXCEPT !.calls = calls, !.res = "crash"]]
       IN
       \* a is the row_t of the results that the stub has bound
       /\ (path \in {"ok", "alloc_custom"} /\ F > 0) \/ a = "all"
       /\ IF path = "crash"
          THEN /\ stmt.state # "live"
               /\ died(c1)
               /\ UNCHANGED <<stmt, handles>>
          ELSE IF path = "set_param_null"
          \* the row_t of the parameters has no r->bind or no r->length: the first
          \* set_param writes through the NULL pointer
          THEN /\ ParamCountOk(len, mysql_stmt_param_count) /\ len > 0
               /\ died(c1 \o <<R("create_row"), R("set_param")>>)
               /\ UNCHANGED <<stmt, handles>>
          ELSE IF path = "bind_result_null"
          \* the row_t of the results has no r->bind: the first bind_result writes
          \* through the NULL pointer
          THEN /\ ParamCountOk(len, mysql_stmt_param_count) /\ F > 0
               /\ died(c5 \o <<R("create_row"), R("bind_result")>>)
               /\ stmt' = executed
               /\ handles' = older
          ELSE
            /\ UNCHANGED pc
            /\ IF ~ParamCountOk(len, mysql_stmt_param_count)
               THEN /\ path = "ok"
                    /\ cur' = [cur EXCEPT ![t] =
                          [base EXCEPT !.calls = c1 \o c1 \o <<HostCall("mysqlfailmsg", hasLock[t])>>,
                                       !.res = "fail",
                                       !.err = ParamCountMsg(len, mysql_stmt_param_count)]]
                    /\ UNCHANGED <<stmt, handles>>
               ELSE CASE path = "row_params" ->
                           /\ done(c1 \o <<R("create_row")>>, "CreateRow")
                           /\ UNCHANGED <<stmt, handles>>
                      [] path = "bind_param" ->
                           /\ done(c3 \o destroy_row(hasLock[t]), "Bind")
                           /\ UNCHANGED <<stmt, handles>>
                      [] path = "execute" ->
                           /\ done(c4 \o destroy_row(hasLock[t]), "Execute")
                           /\ stmt' = [stmt EXCEPT !.rows = FALSE]
                           /\ handles' = older
                      [] path = "row_results" ->
                           /\ done(c5 \o <<R("create_row")>>, "CreateRow")
                           /\ stmt' = executed
                           /\ handles' = older
                      [] path = "bind_result" ->
                           /\ F > 0
                           /\ done(c6 \o destroy_row(hasLock[t]), "Bind")
                           /\ stmt' = [executed EXCEPT !.bound = "freed"]
                           /\ handles' = unbound
                      [] path = "alloc_custom" ->
                           \* the host has no memory for the handle: alloc_custom
                           \* raises, and the row_t of the results, which the
                           \* statement's bindings point into, stays allocated
                           /\ cur' = [cur EXCEPT ![t] =
                                 [base EXCEPT !.calls = c6 \o <<HostCall("alloc_custom", hasLock[t])>>,
                                              !.res = "fail", !.err = Fail("OutOfMemory")]]
                           /\ handles' = IF F > 0 THEN unbound ELSE older
                           /\ stmt' = IF F > 0
                                      THEN [executed EXCEPT
                                              !.bound = IF a = "all" THEN "leaked"
                                                        ELSE "leaked_null"]
                                      ELSE executed
                      [] path = "ok" ->
                           /\ Len(handles) < MaxHandles
                           /\ cur' = [cur EXCEPT ![t] =
                                 [base EXCEPT !.calls = c6 \o <<HostCall("alloc_custom", hasLock[t])>>,
                                              !.res = "value"]]
                           /\ handles' = IF F > 0
                                         THEN Append(unbound, [create_row(F) EXCEPT !.bound = TRUE,
                                                                                   !.arrays = a])
                                         ELSE Append(older, create_row(F))
                           /\ stmt' = IF F > 0 THEN [executed EXCEPT !.bound = "row"] ELSE executed
  /\ UNCHANGED <<live, hasLock, connVars, resVars, out, server>>

\* the return codes of mysql_stmt_fetch
MYSQL_NO_DATA == 100
MYSQL_DATA_TRUNCATED == 101

\* the statement's bindings have no buffer (bind_result: buffer_length 0), so a
\* row with a value of one byte or more is reported as truncated
StmtFetchCode(o, row) ==
  IF o = "error" THEN 1
  ELSE IF row = <<>> THEN MYSQL_NO_DATA
  ELSE IF \E i \in 1..Len(row[1]) : ~row[1][i].null /\ Len(row[1][i].data) > 0
       THEN MYSQL_DATA_TRUNCATED ELSE 0

\* a fetch that takes only the code 0 for a row
FetchGaveRow_NoTrunc(res) == res = 0

\* if (0 != res && MYSQL_DATA_TRUNCATED != res) CAMLreturn(Val_none)
FetchGaveRow(res) == ~(0 # res /\ MYSQL_DATA_TRUNCATED # res)

\* what mysql_stmt_fetch stores through bind->length: the length of each value
\* that is not NULL; for a NULL it sets the is_null flag and leaves the length
WriteLengths(length, row) ==
  [i \in 1..Len(length) |-> IF row[i].null THEN length[i] ELSE Len(row[i].data)]

\* get_column(r, index) on column i = index + 1.  st: r->length, r->bind[0]'s
\* buffer_length, the entries made so far, and whether the library was made to
\* write through a buffer pointer of an earlier allocation.  plen: the lengths
\* the statement holds for the current row.  An entry Some(str) is <<n>>, n the
\* length of str: mysql_stmt_fetch_column is handed r->bind, the binding of
\* column 0, so it copies into that binding's buffer and stores the value's
\* length in r->length[0], whatever the index.
get_column(st, i, row, plen) ==
  LET length == st.length[i] IN
  IF length > 0
  THEN LET b0 == IF i = 1 THEN length ELSE st.buf0
           has == ~row[i].null
       IN [length |-> IF has THEN [st.length EXCEPT ![1] = plen[i]] ELSE st.length,
           buf0 |-> b0,
           arr |-> Append(st.arr, <<length>>),
           wild |-> st.wild \/ (i > 1 /\ has /\ b0 > 0)]
  ELSE [st EXCEPT !.arr = Append(@, <<>>)]

RECURSIVE GetColumns(_, _, _, _)
\* for (i = 0; i < r->count; i++) Store_field(arr,i,get_column(r,i))
GetColumns(st, i, row, plen) ==
  IF i > Len(st.length) THEN st
  ELSE GetColumns(get_column(st, i, row, plen), i + 1, row, plen)

\* mysql_stmt_fetch acts on r->stmt: on the rows of the statement's latest
\* execution, whichever handle the row_t came from, and it stores the lengths
\* where the statement's bindings point: in the row_t of the latest bind_result.
\* The process stops, or may stop, where a pointer that is freed, NULL or
\* computed from NULL is used: the statement itself, the arrays the bindings
\* point to, r->length in get_column, a buffer of an earlier fetch
caml_mysql_stmt_fetch(t) ==
  /\ InHost(t)
  /\ \E h \in 1..Len(handles), o \in {"row", "error", "crash"} :
       LET r == handles[h]
           avail == stmt.state = "live" /\ stmt.rows /\ server.F > 0
                    /\ stmt.cursor < server.srows
           \* the library takes the next row, then stores through the bindings
           took == o # "error" /\ avail
           got == o = "row" /\ avail
           trow == IF took THEN <<server.sdata[stmt.cursor + 1]>> ELSE <<>>
           row == IF got THEN trow ELSE <<>>
           res == StmtFetchCode(o, row)
           dangling == took /\ stmt.bound = "freed"
           freed == got /\ stmt.bound = "freed"
           b == CHOOSE i \in 1..Len(handles) : handles[i].bound
           stored == took /\ stmt.bound = "row" /\ handles[b].arrays # "no_length"
           hs == IF stored
                 THEN [handles EXCEPT ![b].length = WriteLengths(@, trow[1])]
                 ELSE handles
           plen == IF stored THEN hs[b].length
                   ELSE [i \in 1..server.F |-> IF took THEN Len(trow[1][i].data) ELSE 0]
           st == IF took
                 THEN GetColumns([length |-> hs[h].length, buf0 |-> hs[h].buf0,
                                  arr |-> <<>>, wild |-> FALSE], 1, trow[1], plen)
                 ELSE [length |-> hs[h].length, buf0 |-> hs[h].buf0,
                       arr |-> Rep(r.count, <<>>), wild |-> FALSE]
           val == IF FetchGaveRow(res) THEN <<st.arr>> ELSE <<>>
           \* the library stores through bindings made from NULL arrays
           nullbind == took /\ \/ stmt.bound = "row" /\ handles[b].arrays # "all"
                               \/ stmt.bound = "leaked_null"
           \* get_column reads r->length[0] of a row_t without r->length
           nullread == took /\ r.count > 0 /\ r.arrays = "no_length"
       IN
       /\ o = "crash" => (stmt.state # "live" \/ dangling \/ st.wild \/ nullbind
                            \/ nullread)
       /\ o = "row" => ~nullread
       /\ pc' = IF o = "crash" THEN [u \in Threads |-> "crashed"] ELSE pc
       /\ cur' = [cur EXCEPT ![t] =
             [Begin("stmt_fetch") EXCEPT
                !.calls = <<StmtNative("mysql_stmt_fetch", hasLock[t])>>,
                !.arg = h,
                !.res = IF o = "crash" THEN "crash"
                        ELSE IF val # <<>> THEN "some" ELSE "none",
                \* whether the handle is of an earlier execution than the
                \* statement's latest, whether this fetch consumed a row, the
                \* code of mysql_stmt_fetch, the value returned, the row the
                \* server sent, r->count, and whether the library used bindings
                \* that point into a destroyed row_t
                !.obs = <<r.stale, got, res, val, row, r.count, freed>>]]
       /\ stmt' = IF took THEN [stmt EXCEPT !.cursor = @ + 1] ELSE stmt
       /\ handles' = IF o = "crash" THEN handles
                     ELSE [hs EXCEPT ![h].length = st.length, ![h].buf0 = st.buf0]
  /\ UNCHANGED <<live, hasLock, connVars, resVars, out, server>>

\* the collector finalizes an execution handle the host has dropped: destroy_row
\* frees its row_t, to which the statement's bindings may still point
stmt_result_finalize(t) ==
  /\ InHost(t)
  /\ \E h \in 1..Len(handles) :
       /\ handles' = SubSeq(handles, 1, h - 1) \o SubSeq(handles, h + 1, Len(handles))
       /\ stmt' = IF handles[h].bound THEN [stmt EXCEPT !.bound = "freed"] ELSE stmt
  /\ UNCHANGED <<thrVars, connVars, resVars, out, server>>

\* the runtime switches host threads: the running one gives the lock up, a
\* waiting one takes it when it is free
Yield(t) ==
  /\ InHost(t) /\ hasLock[t]
  /\ pc' = [pc EXCEPT ![t] = "yielded"]
  /\ hasLock' = [hasLock EXCEPT ![t] = FALSE]
  /\ UNCHANGED <<live, cur, connVars, stmtVars, resVars, out, server>>

Resume(t) ==
  /\ t \in live /\ pc[t] = "yielded" /\ LockFree(t)
  /\ pc' = [pc EXCEPT ![t] = "host"]
  /\ hasLock' = [hasLock EXCEPT ![t] = TRUE]
  /\ UNCHANGED <<live, cur, connVars, stmtVars, resVars, out, server>>

\* ---------------------------------------------------------------------------
\* Specifications
\* ---------------------------------------------------------------------------

InitConn ==
  /\ dbd = NoDbd
  /\ session = "none"
  /\ closes = 0
  /\ cur = [t \in Threads |-> NoCall]
  /\ stmt = NoStmt
  /\ handles = <<>>
  /\ result = NoResult
  /\ nfetch = 0
  /\ seeked = -1
  /\ out = NoOut

\* the cells of a native row: a NULL pointer, or the bytes of the value

CellAt(k) == IF k % 3 = 0 THEN [null |-> TRUE, data |-> <<>>]
             ELSE IF k % 3 = 1 THEN [null |-> FALSE, data |-> <<>>]
             ELSE [null |-> FALSE, data |-> <<65, 66>>]

\* three rows of each width, which put each kind of cell in each column
RowsOf(c) == {[j \in 1..c |-> CellAt(j + p)] : p \in 0..2}

\* a query's result on the server: nf = 0 is a statement without a result set
Tables ==
  {[rows |-> <<>>, nf |-> 0]} \cup
  UNION {UNION {{[rows |-> rs, nf |-> c] : rs \in [1..n -> RowsOf(c)]} :
                n \in 0..MaxRows} : c \in 1..MaxCols}

OneTable == [rows |-> <<<<[null |-> FALSE, data |-> <<65, 66>>]>>>>, nf |-> 1]

\* one host thread, the whole driver
Init ==
  /\ live = {"t1"}
  /\ pc = [t \in Threads |-> IF t = "t1" THEN "host" ELSE "absent"]
  /\ hasLock = [t \in Threads |-> t = "t1"]
  /\ InitConn
  /\ server = [P |-> 1, F |-> 0, srows |-> 0, query |-> OneTable, sdata |-> <<>>]

ConnNext(t) ==
  \/ db_connect(t) \/ db_connect_leave(t)
  \/ db_change_user(t) \/ db_change_user_call(t) \/ db_change_user_leave(t)
  \/ db_select_db(t) \/ db_select_db_call(t) \/ db_select_db_leave(t)
  \/ db_ping(t) \/ db_ping_call(t) \/ db_ping_leave(t)
  \/ db_list_dbs(t) \/ db_list_dbs_call(t) \/ db_list_dbs_leave(t)
  \/ db_disconnect(t) \/ db_disconnect_call(t) \/ db_disconnect_leave(t)
  \/ conn_finalize(t) \/ conn_finalize_call(t) \/ conn_finalize_leave(t)
  \/ db_status(t) \/ db_errmsg(t) \/ db_affected(t) \/ db_insert_id(t)
  \/ db_host_info(t) \/ db_server_info(t) \/ db_proto_info(t)

StmtNext(t) ==
  \/ caml_mysql_stmt_prepare(t) \/ caml_mysql_stmt_prepare_call(t)
  \/ caml_mysql_stmt_prepare_compile(t) \/ caml_mysql_stmt_prepare_leave(t)
  \/ caml_mysql_stmt_close(t) \/ caml_mysql_stmt_close_call(t)
  \/ caml_mysql_stmt_close_leave(t)
  \/ caml_mysql_stmt_execute(t) \/ caml_mysql_stmt_fetch(t)
  \/ stmt_result_finalize(t) \/ DropStmt(t)

Next ==
  \E t \in Threads :
    ConnNext(t) \/ db_exec(t) \/ db_exec_call(t) \/ db_exec_leave(t) \/ StmtNext(t)

Spec == Init /\ [][Next]_vars

\* two host threads on one connection
InitThreads ==
  /\ live = Threads
  /\ pc = [t \in Threads |-> IF t = "t1" THEN "host" ELSE "yielded"]
  /\ hasLock = [t \in Threads |-> t = "t1"]
  /\ InitConn
  /\ server = [P |-> 0, F |-> 0, srows |-> 0, query |-> OneTable, sdata |-> <<>>]

NextThreads == \E t \in Threads : ConnNext(t) \/ Yield(t) \/ Resume(t)

SpecThreads == InitThreads /\ [][NextThreads]_vars

\* one host thread on an open connection
InitOpen ==
  /\ live = {"t1"}
  /\ pc = [t \in Threads |-> IF t = "t1" THEN "host" ELSE "absent"]
  /\ hasLock = [t \in Threads |-> t = "t1"]
  /\ dbd = [alloc |-> TRUE, mysql |-> "MYSQL", open |-> TRUE, dropped |-> FALSE]
  /\ session = "connected"
  /\ closes = 0
  /\ cur = [t \in Threads |-> NoCall]
  /\ stmt = NoStmt
  /\ handles = <<>>
  /\ result = NoResult
  /\ nfetch = 0
  /\ seeked = -1
  /\ out = NoOut

\* prepared statements on an open connection, for every statement shape
InitStmt ==
  /\ InitOpen
  /\ server \in {[P |-> p, F |-> f, srows |-> n, query |-> OneTable,
                  sdata |-> [i \in 1..n |-> [j \in 1..f |-> CellAt(2)]]] :
                   p \in 0..MaxParams, f \in 0..1, n \in 0..1}

NextStmt == \E t \in Threads : StmtNext(t)

SpecStmt == InitStmt /\ [][NextStmt]_vars

\* queries on an open connection, for every result the server can send
InitRes ==
  /\ InitOpen
  /\ server \in [P : {0}, F : {0}, srows : {0}, query : Tables, sdata : {<<>>}]

\* the rows of a result
NextRes ==
  \E t \in Threads :
    \/ db_exec(t) \/ db_exec_call(t) \/ db_exec_leave(t)
    \/ db_fetch(t) \/ db_to_row(t) \/ db_size(t) \/ db_fields(t)
    \/ FinalizeResult(t)

SpecRes == InitRes /\ [][NextRes]_vars

\* the counts and the column descriptions of a result
NextFields ==
  \E t \in Threads :
    \/ db_exec(t) \/ db_exec_call(t) \/ db_exec_leave(t)
    \/ db_size(t) \/ db_fields(t)
    \/ db_fetch_field(t) \/ db_fetch_field_dir(t) \/ db_fetch_fields(t)
    \/ FinalizeResult(t)

SpecFields == InitRes /\ [][NextFields]_vars

\* n rows of f columns in which every column holds, row after row, a value of
\* two bytes, a NULL, an empty value
StmtRows(n, f) == [i \in 1..n |-> [j \in 1..f |-> CellAt(i + j)]]

\* a prepared statement without parameters, for results of every size
InitFetch ==
  /\ InitOpen
  /\ server \in {[P |-> 0, F |-> f, srows |-> n, query |-> OneTable,
                  sdata |-> StmtRows(n, f)] : f \in 0..MaxCols, n \in 0..MaxRows}

\* an execute made while the host holds fewer than MaxFetchHandles handles
ExecuteNext(t) ==
  /\ Len(handles) < MaxFetchHandles
  /\ caml_mysql_stmt_execute(t)

NextFetch ==
  \E t \in Threads :
    \/ caml_mysql_stmt_prepare(t) \/ caml_mysql_stmt_prepare_call(t)
    \/ caml_mysql_stmt_prepare_compile(t) \/ caml_mysql_stmt_prepare_leave(t)
    \/ ExecuteNext(t) \/ caml_mysql_stmt_fetch(t)
    \/ stmt_result_finalize(t)

SpecFetch == InitFetch /\ [][NextFetch]_vars

\* the statement's whole life, for every statement shape, with executes made
\* while the host holds fewer than MaxFetchHandles handles
NextExec ==
  \E t \in Threads :
    \/ caml_mysql_stmt_prepare(t) \/ caml_mysql_stmt_prepare_call(t)
    \/ caml_mysql_stmt_prepare_compile(t) \/ caml_mysql_stmt_prepare_leave(t)
    \/ caml_mysql_stmt_close(t) \/ caml_mysql_stmt_close_call(t)
    \/ caml_mysql_stmt_close_leave(t)
    \/ ExecuteNext(t) \/ caml_mysql_stmt_fetch(t)
    \/ stmt_result_finalize(t) \/ DropStmt(t)

SpecExec == InitStmt /\ [][NextExec]_vars

\* the type mapping applied to every code
InitType ==
  /\ InitOpen
  /\ server = [P |-> 0, F |-> 0, srows |-> 0, query |-> OneTable, sdata |-> <<>>]

NextType == \E t \in Threads : MapType(t)

SpecType == InitType /\ [][NextType]_vars

\* ---------------------------------------------------------------------------
\* Properties
\* ---------------------------------------------------------------------------

Calls(t) == {c.fn : c \in CallSet(t)}

\* the operations the closed-connection rule names
ClosedRuleOps == {"change_user", "select_db", "ping", "list_dbs", "exec", "prepare",
                  "errmsg", "status", "affected", "insert_id", "host_info",
                  "server_info", "proto_info"}

\* C1: an operation other than disconnect that is entered on a connection that
\* disconnect has closed raises the closed-connection error and makes no call into
\* the native library.  (db_list_dbs, db_affected, db_insert_id, db_host_info,
\* db_server_info and db_proto_info do not call check_dbd.)
C1_ClosedOperationFails ==
  \A t \in live :
    (dbd.alloc /\ cur[t].op \in ClosedRuleOps /\ ~cur[t].wasOpen)
      => (cur[t].res = "closed" /\ cur[t].calls = <<>>)

\* C2: under one host thread, whatever disconnect calls and finalization are made,
\* mysql_close runs at most once, and exactly once when the connection has been
\* closed or finalized; disconnect on an open connection closes it and clears the
\* flag; disconnect on a closed connection makes no native call; the finalizer
\* calls mysql_close exactly when it finds the flag set.  (A finalizer that has
\* entered its blocking section and not yet called mysql_close has not
\* finalized the connection yet.)
C2_SessionClosedOnce ==
  /\ closes <= 1
  /\ (dbd.alloc /\ ~dbd.open) => closes = 1
  /\ \A t \in live :
       /\ (dbd.dropped /\ pc[t] # "enter") => closes = 1
       /\ (cur[t].op = "disconnect" /\ cur[t].res = "unit") => (~dbd.open /\ closes = 1)
       /\ (cur[t].op = "disconnect" /\ ~cur[t].wasOpen)
            => (cur[t].calls = <<>> /\ cur[t].res = "closed")
       /\ (cur[t].op = "finalize" /\ pc[t] # "enter")
            => (cur[t].wasOpen <=> "mysql_close" \in Calls(t))

\* a connection closed by disconnect and then finalized, with one mysql_close made
C2_Witness ==
  /\ dbd.dropped /\ ~dbd.open /\ closes = 1
  /\ \E t \in live : cur[t].op = "finalize" /\ ~cur[t].wasOpen /\ cur[t].calls = <<>>

\* the native calls that wait for the server: mysql_store_result reads the whole
\* result set from the connection, mysql_stmt_execute sends the parameters and
\* waits for the reply, mysql_stmt_fetch reads the next row
NetworkFns == {"mysql_real_connect", "mysql_change_user", "mysql_select_db", "mysql_ping",
               "mysql_close", "mysql_list_dbs", "mysql_real_query", "mysql_store_result",
               "mysql_stmt_prepare", "mysql_stmt_close", "mysql_stmt_execute",
               "mysql_stmt_fetch"}

\* C3: every native call that waits for the server, those of query execute,
\* prepared execute and prepared fetch included, is made with the master lock
\* released.  (caml_mysql_stmt_execute and caml_mysql_stmt_fetch have no blocking
\* section, and db_exec calls mysql_store_result after it has left its own.)
C3_EveryNetworkCallReleased ==
  \A t \in live : \A c \in CallSet(t) : c.fn \in NetworkFns => ~c.locked

\* C4: whenever control is back in the host (the stub has returned or raised), the
\* thread holds the master lock.  (db_select_db raises on failure before it
\* reaches caml_leave_blocking_section.)
C4_LockHeldInHost ==
  \A t \in live : pc[t] = "host" => hasLock[t]

\* C5: at most one thread is inside a native call on the connection's session; in
\* particular no other thread is inside one while a thread is inside the
\* mysql_close of disconnect.  (The open flag is cleared only after the close
\* returns, and nothing else serializes the threads.)
C5_OneNativeCallInFlight ==
  Cardinality({t \in live : pc[t] \notin {"host", "yielded", "crashed", "enter"}}) <= 1

\* C6: mysql_stmt_close runs at most once on a statement, and has run once on a
\* statement the host has dropped.  (Nothing records that a statement was closed,
\* and the statement value has no finalizer.)
C6_StatementReleasedOnce ==
  /\ stmt.closes <= 1
  /\ stmt.dropped => stmt.closes = 1

\* C7: a fetch through the handle of an earlier execution consumes no row of the
\* statement's latest execution.  (The row_t holds only the statement pointer, and
\* mysql_stmt_fetch acts on the statement's current rows.)
C7_FetchOwnExecution ==
  \A t \in live :
    cur[t].op = "stmt_fetch" => ~(cur[t].obs[1] /\ cur[t].obs[2])

RowAndBindCalls == {"create_row", "set_param", "destroy_row", "bind_result",
                    "mysql_stmt_bind_param", "mysql_stmt_execute",
                    "mysql_stmt_field_count", "mysql_stmt_bind_result"}

\* C8: execute on a live statement with a parameter list whose length differs from
\* the statement's parameter count raises the parameter-count error carrying the
\* statement's count and the length given, and has allocated no row_t and made no
\* bind or execute call.
C8_ParamCountChecked ==
  \A t \in live :
    (cur[t].op = "stmt_execute" /\ cur[t].wasLive /\ cur[t].res # "crash"
       /\ cur[t].arg # server.P)
      => /\ cur[t].res = "fail"
         /\ cur[t].err = [kind |-> "ParamCount", actual |-> cur[t].arg,
                          expected |-> server.P]
         /\ Calls(t) \cap RowAndBindCalls = {}

\* an execute with one parameter too few has raised the parameter-count error
C8_Witness ==
  \E t \in live :
    /\ cur[t].op = "stmt_execute" /\ cur[t].wasLive
    /\ cur[t].arg + 1 = server.P
    /\ cur[t].err.kind = "ParamCount"

\* a row as the host is to see it: None for NULL, Some of the bytes otherwise
ExpectedRow(row) == [i \in 1..Len(row) |-> IF row[i].null THEN <<>> ELSE <<row[i].data>>]

\* C9: for a stored result of a query with N rows and C > 0 columns, db_size
\* returns N and db_fields returns C whenever they are called, and counting the
\* db_fetch calls from the fresh cursor with no seek in between, call k <= N
\* returns Some of row k with C entries and every call k > N returns None.
C9_BufferedFetch ==
  (result.held /\ ~result.null) =>
    LET N == Len(server.query.rows)
        C == server.query.nf
    IN /\ C > 0
       /\ out.op = "size" => out.val = <<N>>
       /\ out.op = "fields" => out.val = <<C>>
       /\ (out.op = "fetch" /\ out.n >= 1) =>
            /\ out.err = "none"
            /\ out.n <= N => /\ out.val = <<ExpectedRow(server.query.rows[out.n])>>
                             /\ Len(out.val[1]) = C
            /\ out.n > N => out.val = <<>>

\* fetch N + 1 from the fresh cursor of a result with N >= 2 rows returned None
C9_Witness ==
  /\ result.held /\ ~result.null
  /\ Len(server.query.rows) >= 2
  /\ out.op = "fetch" /\ out.n = Len(server.query.rows) + 1 /\ out.val = <<>>

RECURSIVE NthFetch(_, _)
\* the n-th of n successive db_fetch calls on the RESval r
NthFetch(r, n) == IF n <= 1 THEN FetchOn(r) ELSE NthFetch(FetchOn(r).res, n - 1)

\* C10: on a stored result with N rows, db_to_row(k) with 0 <= k < N succeeds, and
\* the db_fetch that follows it returns the row that k + 1 db_fetch calls from the
\* fresh cursor end with, whatever fetches and seeks came before.
C10_SeekThenFetch ==
  (result.held /\ ~result.null) =>
    /\ (out.op = "to_row" /\ out.n >= 0 /\ out.n < Len(server.query.rows))
         => out.err = "none"
    /\ (out.op = "fetch" /\ out.afterSeek >= 0) =>
         LET f == NthFetch([result EXCEPT !.cursor = 0], out.afterSeek + 1)
         IN out.err = "none" /\ out.val # <<>> /\ out.val = f.val

\* a fetch right after a seek to the last of at least two rows, with earlier
\* fetches and seeks behind it
C10_Witness ==
  /\ result.held /\ ~result.null
  /\ Len(server.query.rows) >= 2
  /\ out.op = "fetch" /\ out.afterSeek = Len(server.query.rows) - 1
  /\ out.val # <<>>

\* the row count the host sees: 0 where there is no result handle
RowCount == IF result.null THEN 0 ELSE mysql_num_rows(result)

\* C11, as claimed: on every result value, one without a result handle included,
\* db_to_row with an offset outside [0, rowCount) raises the range error.
C11_RangeErrorOnEveryResult ==
  (result.held /\ out.op = "to_row" /\ (out.n < 0 \/ out.n >= RowCount))
    => out.err = "range"

\* C11, amended: on a result with a handle (zero rows included) db_to_row with an
\* offset outside [0, rowCount) raises the range error (Invalid_argument); on a
\* result without a handle db_to_row raises the no-result error for every offset;
\* in both cases the result and its cursor are left as they were (a step that ends
\* with a failed seek as the last call, and is not a run of the destructor, changes
\* nothing of the result), so the next db_fetch returns what it would have
\* returned without the seek.
C11_SeekOutOfRange ==
  /\ [](result.held =>
          /\ (out.op = "to_row" /\ ~result.null /\ (out.n < 0 \/ out.n >= RowCount))
               => out.err = "range"
          /\ (out.op = "to_row" /\ result.null) => out.err = "no_result")
  /\ [][(out'.op = "to_row" /\ out'.err # "none" /\ result'.finals = result.finals)
          => (result' = result /\ FetchOn(result') = FetchOn(result))]_vars

\* a seek to offset N, on a result whose cursor has moved, raised the range error
\* and the cursor is still where a fetch left it
C11_Witness ==
  /\ result.held /\ ~result.null
  /\ out.op = "to_row" /\ out.err = "range" /\ out.n = RowCount
  /\ result.cursor >= 1

\* C12: db_fetch on a result value without a result handle, or with a handle of
\* zero fields, raises the no-result error: it returns neither None nor a row, and
\* the cursor does not move.
C12_FetchWithoutColumns ==
  /\ (result.held /\ (result.null \/ mysql_num_fields(result) = 0))
       => /\ FetchOn(result).err \in {"no_result", "no_columns"}
          /\ FetchOn(result).val = <<>>
          /\ FetchOn(result).res = result
          /\ out.op = "fetch" => (out.err \in {"no_result", "no_columns"} /\ out.val = <<>>)
          /\ result.cursor = 0
  /\ \A c \in 0..MaxRows :
       LET r == [NoResult EXCEPT !.held = TRUE, !.null = FALSE, !.cursor = c]
       IN FetchOn(r) = [err |-> "no_columns", val |-> <<>>, res |-> r]

\* a fetch on a result without a handle raised the no-result error
C12_Witness ==
  /\ result.held /\ result.null
  /\ out.op = "fetch" /\ out.err = "no_result" /\ out.val = <<>>

\* the codes that have an entry in the table
TableCodes == {map[i].mysql : i \in 1..(Len(map) - 1)}

\* the tag of the first entry of the table with the code
FirstTag(code) ==
  map[CHOOSE i \in 1..Len(map) :
        map[i].mysql = code /\ \A j \in 1..(i - 1) : map[j].mysql # code].caml

\* C15: type2dbty gives a tag for every code (the loop stops inside the table): a
\* code of the table gets the tag of its first entry, and every entry of that code
\* has that tag; the integer widths below 64 bits get Int, the 64-bit width Int64,
\* the four blob codes Blob; every other code, -1 included, gets Unknown.
C15_TypeMapping ==
  out.op = "type2dbty" =>
    LET code == out.n
        tag == out.val[1]
    IN /\ out.err = "none" /\ Len(out.val) = 1
       /\ tag \in 0..13
       /\ MapLoop(1, code) \in 1..Len(map)
       /\ code \in TableCodes =>
            /\ tag = FirstTag(code)
            /\ \A i \in 1..Len(map) : map[i].mysql = code => map[i].caml = tag
       /\ code \in {FIELD_TYPE_TINY, FIELD_TYPE_SHORT, FIELD_TYPE_LONG, FIELD_TYPE_INT24}
            => tag = INT_TY
       /\ code = FIELD_TYPE_LONGLONG => tag = INT64_TY
       /\ code \in {FIELD_TYPE_TINY_BLOB, FIELD_TYPE_MEDIUM_BLOB, FIELD_TYPE_LONG_BLOB,
                     FIELD_TYPE_BLOB} => tag = BLOB_TY
       /\ code \notin TableCodes => tag = UNKNOWN_TY
       /\ code = -1 => tag = UNKNOWN_TY

\* the code -1, which is the table's closing entry, was mapped to Unknown
C15_Witness ==
  out.op = "type2dbty" /\ out.n = -1 /\ out.val = <<UNKNOWN_TY>>

C19_AccessorsWithoutHandle ==
  result.null =>
    /\ out.op \in {"size", "fields"} => (out.err = "none" /\ out.val = <<0>>)
    /\ out.op \in {"fetch_fields", "fetch_field", "fetch_field_dir"}
         => (out.err = "none" /\ out.val = <<>>)

\* C13: caml_mysql_stmt_fetch returns None exactly when mysql_stmt_fetch gave a
\* code other than 0 and MYSQL_DATA_TRUNCATED (MYSQL_NO_DATA among them), and on
\* 0 or MYSQL_DATA_TRUNCATED it returns Some of a row whose length is r->count,
\* the field count the statement had when it was executed.
C13_StmtFetchResult ==
  \A t \in live :
    (cur[t].op = "stmt_fetch" /\ cur[t].res # "crash") =>
      LET res == cur[t].obs[3]
          val == cur[t].obs[4]
      IN /\ (val = <<>>) <=> (res \notin {0, MYSQL_DATA_TRUNCATED})
         /\ res = MYSQL_NO_DATA => val = <<>>
         /\ (cur[t].res = "none") <=> (val = <<>>)
         /\ val # <<>> => (Len(val[1]) = server.F /\ Len(val[1]) = cur[t].obs[6])

\* a fetch that the library reported as truncated returned a row of two or more
\* columns
C13_Witness ==
  \E t \in live :
    /\ cur[t].op = "stmt_fetch" /\ cur[t].res = "some"
    /\ cur[t].obs[3] = MYSQL_DATA_TRUNCATED
    /\ server.F >= 2 /\ Len(cur[t].obs[4][1]) = server.F

\* C14: in every row that caml_mysql_stmt_fetch returns, the entry of a column is
\* None when the column is NULL or empty in the row the server sent, and otherwise
\* Some of a string of exactly the value's length.  (mysql_stmt_fetch leaves
\* r->length of a NULL column as an earlier row set it, and get_column decides on
\* r->length alone.)
C14_ColumnEntries ==
  \A t \in live :
    (cur[t].op = "stmt_fetch" /\ cur[t].res = "some") =>
      LET row == cur[t].obs[5][1]
          arr == cur[t].obs[4][1]
      IN \A i \in 1..Len(arr) :
           arr[i] = IF row[i].null \/ Len(row[i].data) = 0 THEN <<>>
                    ELSE <<Len(row[i].data)>>

\* the number of calls of fn among the first k calls of a stub
CountCalls(cs, fn, k) == Cardinality({i \in 1..k : cs[i].fn = fn})

\* C16: in caml_mysql_stmt_execute no row_t is destroyed that is not allocated (so
\* none twice); the row_t of the parameters is destroyed before the row_t of the
\* results is created; an execute that raises leaves no row_t allocated, the one
\* whose mysql_stmt_bind_result fails included; an execute that returns has
\* destroyed the row_t of the parameters and keeps that of the results.  (The
\* create_row that the stub raises for returned no row_t.  When alloc_custom
\* raises, the row_t of the results has been created and is not destroyed.)
C16_RowBuffersReleased ==
  \A t \in live :
    (cur[t].op = "stmt_execute" /\ cur[t].res \in {"fail", "value"}) =>
      LET cs == cur[t].calls
          made(k) == CountCalls(cs, "create_row", k)
          gone(k) == CountCalls(cs, "destroy_row", k)
          none == IF cur[t].err.kind = "CreateRow" THEN 1 ELSE 0
      IN /\ \A k \in 1..Len(cs) : gone(k) <= made(k)
         /\ \A k \in 1..Len(cs) :
              (cs[k].fn = "create_row" /\ made(k) = 2) => gone(k) = 1
         /\ cur[t].res = "fail" => gone(Len(cs)) = made(Len(cs)) - none
         /\ cur[t].res = "value" => (made(Len(cs)) = 2 /\ gone(Len(cs)) = 1)
         /\ "mysql_stmt_bind_param" \in Calls(t) => gone(Len(cs)) >= 1
         /\ (cur[t].err.kind = "Bind" /\ "mysql_stmt_bind_result" \in Calls(t))
              => (cur[t].res = "fail" /\ made(Len(cs)) = 2 /\ gone(Len(cs)) = 2)

\* what allocates in the host's heap, and what gives up or takes the master lock
HostAllocFns == {"alloc_custom", "mysqlfailwith", "mysqlfailmsg"}
LockFns == {"caml_enter_blocking_section", "caml_leave_blocking_section"}

\* C18: in caml_mysql_stmt_execute, from the first set_param to the return of
\* mysql_stmt_execute, every call is made with the master lock held, the lock is
\* neither given up nor taken, and nothing is allocated in the host's heap.
C18_ParamsPinned ==
  \A t \in live :
    cur[t].op = "stmt_execute" =>
      LET cs == cur[t].calls IN
      \A i \in 1..Len(cs) : \A k \in i..Len(cs) :
        (cs[i].fn = "set_param" /\ cs[k].fn = "mysql_stmt_execute") =>
          \A j \in i..k : cs[j].locked /\ cs[j].fn \notin HostAllocFns \cup LockFns

\* an execute with a parameter has called mysql_stmt_execute and returned a handle
C18_Witness ==
  \E t \in live :
    /\ cur[t].op = "stmt_execute" /\ cur[t].res = "value" /\ cur[t].arg >= 1
    /\ "set_param" \in Calls(t) /\ "mysql_stmt_execute" \in Calls(t)

\* C20: no execute and no fetch passes the MYSQL_STMT to the library after
\* mysql_stmt_close has freed it, and no fetch has the library use bindings that
\* point into a row_t that the finalization of a handle has destroyed.  (Nothing
\* records the close, and the statement keeps the bindings of the latest
\* mysql_stmt_bind_result whatever becomes of that handle.)
C20_NoUseAfterRelease ==
  \A t \in live :
    cur[t].op \in {"stmt_fetch", "stmt_execute"} =>
      /\ \A c \in CallSet(t) : c.arg = "STMT" => ~c.ub
      /\ cur[t].op = "stmt_fetch" => ~cur[t].obs[7]


\* C21: once db_connect has failed, the MYSQL object that mysql_init allocated
\* is no longer allocated and no connection value exists; once
\* caml_mysql_stmt_prepare has failed, the MYSQL_STMT that mysql_stmt_init
\* allocated is no longer allocated and the host holds no statement value
C21_ConnectFailureReleases ==
  \A t \in Threads :
    (cur[t].op = "connect" /\ cur[t].res = "fail")
      => (session # "init" /\ ~dbd.alloc)

C21_PrepareFailureReleases ==
  \A t \in Threads :
    (cur[t].op = "prepare" /\ cur[t].res = "fail")
      => (stmt.state # "live" /\ ~stmt.held)

C21_FailureReleasesNative ==
  C21_ConnectFailureReleases /\ C21_PrepareFailureReleases

=============================================================================
